---- MODULE Spec2Model ----
(***************************************************************************)
(* Case-style converters: toKebabCase (chain_prompt.js), toCamelCase and   *)
(* toDotCase (refined_prompt.js) and the earlier toCamelCase variant       *)
(* (unnamed/part_000).  A JavaScript string is a sequence of one-character *)
(* strings; every regular-expression step is computed as the engine        *)
(* computes it (left to right, non-overlapping, greedy).                   *)
(***************************************************************************)
EXTENDS Naturals, Sequences, FiniteSets

\* Longest input string a caller presents.
MaxLen == 4

\* Characters a caller's string is drawn from: a lowercase letter, an
\* uppercase letter, a digit, a blank, an underscore, a hyphen and a dot.
InputChars == {"a", "B", "1", " ", "_", "-", "."}

---------------------------------------------------------------------------
\* Character classes of the regular expressions

LowerSeq == <<"a","b","c","d","e","f","g","h","i","j","k","l","m",
              "n","o","p","q","r","s","t","u","v","w","x","y","z">>
UpperSeq == <<"A","B","C","D","E","F","G","H","I","J","K","L","M",
              "N","O","P","Q","R","S","T","U","V","W","X","Y","Z">>
Lower == {LowerSeq[i] : i \in DOMAIN LowerSeq}
Upper == {UpperSeq[i] : i \in DOMAIN UpperSeq}
Digit == {"0","1","2","3","4","5","6","7","8","9"}
\* [A-Za-z0-9]
AlphaNum == Lower \cup Upper \cup Digit
\* \s, and what String.prototype.trim removes
Whitespace == {" ", "\t", "\n", "\r"}

\* Every character the strings of the model are made of
Chars == AlphaNum \cup Whitespace \cup {"_", "-", ".", "!", "[", "]"}
\* [^...]: the complement of a class
Not(cls) == Chars \ cls

\* String.prototype.toLowerCase / toUpperCase on one character
toLowerCaseChar(c) ==
    IF c \in Upper THEN LowerSeq[CHOOSE i \in DOMAIN UpperSeq : UpperSeq[i] = c] ELSE c
toUpperCaseChar(c) ==
    IF c \in Lower THEN UpperSeq[CHOOSE i \in DOMAIN LowerSeq : LowerSeq[i] = c] ELSE c
toLowerCase(s) == [i \in DOMAIN s |-> toLowerCaseChar(s[i])]

---------------------------------------------------------------------------
\* String primitives

RECURSIVE TrimStart(_)
TrimStart(s) ==
    IF s # <<>> /\ Head(s) \in Whitespace THEN TrimStart(Tail(s)) ELSE s
RECURSIVE TrimEnd(_)
TrimEnd(s) ==
    IF s # <<>> /\ s[Len(s)] \in Whitespace THEN TrimEnd(SubSeq(s, 1, Len(s) - 1)) ELSE s
\* String.prototype.trim
trim(s) == TrimEnd(TrimStart(s))

\* s.replace(/[cls]+/g, rep): every maximal run of characters of cls becomes rep
RECURSIVE SkipRun(_, _)
SkipRun(s, cls) ==
    IF s # <<>> /\ Head(s) \in cls THEN SkipRun(Tail(s), cls) ELSE s
RECURSIVE ReplaceRuns(_, _, _)
ReplaceRuns(s, cls, rep) ==
    IF s = <<>> THEN <<>>
    ELSE IF Head(s) \in cls THEN rep \o ReplaceRuns(SkipRun(s, cls), cls, rep)
    ELSE <<Head(s)>> \o ReplaceRuns(Tail(s), cls, rep)

\* s.split(/[cls]+/): the pieces between maximal runs of cls, empty pieces kept
RECURSIVE SplitRuns(_, _, _)
SplitRuns(s, cls, cur) ==
    IF s = <<>> THEN <<cur>>
    ELSE IF Head(s) \in cls THEN <<cur>> \o SplitRuns(SkipRun(s, cls), cls, <<>>)
    ELSE SplitRuns(Tail(s), cls, Append(cur, Head(s)))

\* s.split(d) for a one-character d, empty pieces kept
RECURSIVE SplitChar(_, _, _)
SplitChar(s, d, cur) ==
    IF s = <<>> THEN <<cur>>
    ELSE IF Head(s) = d THEN <<cur>> \o SplitChar(Tail(s), d, <<>>)
    ELSE SplitChar(Tail(s), d, Append(cur, Head(s)))

\* .filter(Boolean): the empty string is falsy
FilterBoolean(parts) == SelectSeq(parts, LAMBDA p : p # <<>>)

\* .map(p => p.toLowerCase())
MapLower(parts) == [i \in DOMAIN parts |-> toLowerCase(parts[i])]

\* parts.join(d)
RECURSIVE Join(_, _)
Join(parts, d) ==
    IF parts = <<>> THEN <<>>
    ELSE IF Len(parts) = 1 THEN parts[1]
    ELSE parts[1] \o d \o Join(Tail(parts), d)

\* s.replace(/([a-z0-9])([A-Z])/g, '$1 $2')
RECURSIVE CamelBoundaries(_)
CamelBoundaries(s) ==
    IF Len(s) < 2 THEN s
    ELSE IF s[1] \in (Lower \cup Digit) /\ s[2] \in Upper
         THEN <<s[1], " ", s[2]>> \o CamelBoundaries(SubSeq(s, 3, Len(s)))
    ELSE <<Head(s)>> \o CamelBoundaries(Tail(s))

\* w.charAt(0).toUpperCase() + w.slice(1)
Capitalize(w) == IF w = <<>> THEN <<>> ELSE <<toUpperCaseChar(w[1])>> \o Tail(w)

\* first + parts.slice(1).map(Capitalize).join('')
CamelJoin(parts) ==
    parts[1] \o Join([i \in 1..(Len(parts) - 1) |-> Capitalize(parts[i + 1])], <<>>)

---------------------------------------------------------------------------
\* Values and outcomes

\* A caller's value: null, undefined, the number 1, true, [], {} or a string.
StrInput(s) == [type |-> "string", chars |-> s]
NonStrInput(t) == [type |-> t, chars |-> <<>>]
NonStringTypes == {"null", "undefined", "number", "boolean", "array", "object"}

\* typeof input
typeOf(v) ==
    CASE v.type = "string" -> "string"
      [] v.type = "undefined" -> "undefined"
      [] v.type = "number" -> "number"
      [] v.type = "boolean" -> "boolean"
      [] OTHER -> "object"
\* Array.isArray(input)
isArray(v) == v.type = "array"
\* input === null || input === undefined  (and input == null)
isNullish(v) == v.type \in {"null", "undefined"}

\* String(input) for the values above
StringOf(v) ==
    CASE v.type = "string" -> v.chars
      [] v.type = "number" -> <<"1">>
      [] v.type = "boolean" -> <<"t","r","u","e">>
      [] v.type = "array" -> <<>>
      [] v.type = "object" ->
           <<"[","o","b","j","e","c","t"," ","O","b","j","e","c","t","]">>
      [] v.type = "null" -> <<"n","u","l","l">>
      [] OTHER -> <<"u","n","d","e","f","i","n","e","d">>

Pending == [kind |-> "pending"]
Return(s) == [kind |-> "return", value |-> s]
\* throw new ctor(`${fn}: ${msg}${received}`)
Throw(ctor, fn, msg, received) ==
    [kind |-> "throw", ctor |-> ctor, fn |-> fn, msg |-> msg, received |-> received]

MsgRequired == "input is required and must be a string"
MsgRequiredNonEmpty == "input is required and must be a non-empty string"
MsgExpected == "expected a string but received "
MsgEmpty == "input is an empty string after trimming"
MsgNoAlnum == "input contains no alphanumeric characters"

---------------------------------------------------------------------------
\* chain_prompt.js: toKebabCase

\* Variant: the boundary pattern written /([a-z])([A-Z0-9])/
RECURSIVE LetterDigitBoundaries(_)
LetterDigitBoundaries(s) ==
    IF Len(s) < 2 THEN s
    ELSE IF s[1] \in Lower /\ s[2] \in (Upper \cup Digit)
         THEN <<s[1], " ", s[2]>> \o LetterDigitBoundaries(SubSeq(s, 3, Len(s)))
    ELSE <<Head(s)>> \o LetterDigitBoundaries(Tail(s))
KebabInsertBoundariesAtDigits(trimmed) == LetterDigitBoundaries(trimmed)
\* 1) s = trimmed.replace(/([a-z0-9])([A-Z])/g, '$1 $2')
KebabInsertBoundaries(trimmed) == CamelBoundaries(trimmed)
\* 2) s = s.replace(/[_\s]+/g, ' ')
KebabUnderscores(s) == ReplaceRuns(s, {"_"} \cup Whitespace, <<" ">>)
\* Variant: the hyphen left out of the kept class, /[^A-Za-z0-9 ]+/
KebabStripPunctuationAndHyphens(s) == ReplaceRuns(s, Not(AlphaNum \cup {" "}), <<>>)
\* 3) s = s.replace(/[^A-Za-z0-9 \-]+/g, '')
KebabStripPunctuation(s) == ReplaceRuns(s, Not(AlphaNum \cup {" ", "-"}), <<>>)
\* Variant: only blanks collapsed, / +/
KebabCollapseBlanksOnly(s) == trim(ReplaceRuns(s, {" "}, <<" ">>))
\* 4) s = s.replace(/[ \-]+/g, ' ').trim()
KebabCollapse(s) == trim(ReplaceRuns(s, {" ", "-"}, <<" ">>))
\* Variant: punctuation stripped before the boundaries are inserted
KebabPartsStripFirst(trimmed) ==
    MapLower(FilterBoolean(SplitChar(
        KebabCollapse(KebabUnderscores(KebabInsertBoundaries(
            KebabStripPunctuation(trimmed)))), " ", <<>>)))
\* 5) parts = s.split(' ').filter(Boolean).map(p => p.toLowerCase())
KebabParts(trimmed) ==
    MapLower(FilterBoolean(SplitChar(
        KebabCollapse(KebabStripPunctuation(KebabUnderscores(
            KebabInsertBoundaries(trimmed)))), " ", <<>>)))

KebabTypeError(v) ==
    IF isArray(v) THEN Throw("TypeError", "toKebabCase", MsgExpected, "an array")
    ELSE IF typeOf(v) = "object"
         THEN Throw("TypeError", "toKebabCase", MsgExpected, "an object")
    ELSE Throw("TypeError", "toKebabCase", MsgExpected, typeOf(v))

toKebabCase(v) ==
    IF isNullish(v) THEN Throw("TypeError", "toKebabCase", MsgRequiredNonEmpty, "")
    ELSE IF typeOf(v) # "string" THEN KebabTypeError(v)
    ELSE IF trim(v.chars) = <<>> THEN Throw("Error", "toKebabCase", MsgEmpty, "")
    ELSE IF KebabParts(trim(v.chars)) = <<>>
         THEN Throw("Error", "toKebabCase", MsgNoAlnum, "")
    ELSE Return(Join(KebabParts(trim(v.chars)), <<"-">>))

---------------------------------------------------------------------------
\* refined_prompt.js: toCamelCase

\* cleaned = trimmed.replace(/[^A-Za-z0-9]+/g, ' ')
CamelCleaned(trimmed) == ReplaceRuns(trimmed, Not(AlphaNum), <<" ">>)
\* parts = cleaned.split(/\s+/).filter(Boolean).map(part => part.toLowerCase())
CamelParts(trimmed) ==
    MapLower(FilterBoolean(SplitRuns(CamelCleaned(trimmed), Whitespace, <<>>)))

CamelTypeError(v) == Throw("TypeError", "toCamelCase", MsgExpected, typeOf(v))

toCamelCase(v) ==
    IF isNullish(v) THEN Throw("TypeError", "toCamelCase", MsgRequired, "")
    ELSE IF typeOf(v) # "string" THEN CamelTypeError(v)
    ELSE IF trim(v.chars) = <<>> THEN Throw("Error", "toCamelCase", MsgEmpty, "")
    ELSE IF CamelParts(trim(v.chars)) = <<>>
         THEN Throw("Error", "toCamelCase", MsgNoAlnum, "")
    ELSE Return(CamelJoin(CamelParts(trim(v.chars))))

---------------------------------------------------------------------------
\* refined_prompt.js: toDotCase

\* cleaned.replace(/^\.|\.$/g, ''): one leading and one trailing dot go
StripEdgeDots(s) ==
    LET a == IF s # <<>> /\ Head(s) = "." THEN Tail(s) ELSE s
    IN  IF a # <<>> /\ a[Len(a)] = "." THEN SubSeq(a, 1, Len(a) - 1) ELSE a
\* Variant: whitespace left out of the replaced class, /[^A-Za-z0-9\s]+/
DotCleanedKeepsWhitespace(trimmed) ==
    StripEdgeDots(ReplaceRuns(ReplaceRuns(trimmed, Not(AlphaNum \cup Whitespace), <<".">>),
                              {"."}, <<".">>))
\* cleaned = trimmed.replace(/[^A-Za-z0-9]+/g, '.')
\* cleaned = cleaned.replace(/\.+/g, '.').replace(/^\.|\.$/g, '')
DotCleaned(trimmed) ==
    StripEdgeDots(ReplaceRuns(ReplaceRuns(trimmed, Not(AlphaNum), <<".">>),
                              {"."}, <<".">>))
\* Variant: the parts not lowercased
DotPartsNotLowercased(trimmed) ==
    FilterBoolean(SplitChar(DotCleaned(trimmed), ".", <<>>))
\* parts = cleaned.split('.').filter(Boolean).map(p => p.toLowerCase())
DotParts(trimmed) ==
    MapLower(FilterBoolean(SplitChar(DotCleaned(trimmed), ".", <<>>)))

DotTypeError(v) == Throw("TypeError", "toDotCase", MsgExpected, typeOf(v))

toDotCase(v) ==
    IF isNullish(v) THEN Throw("TypeError", "toDotCase", MsgRequired, "")
    ELSE IF typeOf(v) # "string" THEN DotTypeError(v)
    ELSE IF trim(v.chars) = <<>> THEN Throw("Error", "toDotCase", MsgEmpty, "")
    ELSE IF DotParts(trim(v.chars)) = <<>>
         THEN Throw("Error", "toDotCase", MsgNoAlnum, "")
    ELSE Return(Join(DotParts(trim(v.chars)), <<".">>))

---------------------------------------------------------------------------
\* unnamed/part_000: the earlier toCamelCase

\* words = str.replace(/([a-z0-9])([A-Z])/g, '$1 $2')
\*            .replace(/[^A-Za-z0-9]+/g, ' ').trim()
\*            .split(/\s+/).filter(Boolean).map(w => w.toLowerCase())
BasicWords(str) ==
    MapLower(FilterBoolean(SplitRuns(
        trim(ReplaceRuns(CamelBoundaries(str), Not(AlphaNum), <<" ">>)),
        Whitespace, <<>>)))

toCamelCaseBasic(v) ==
    IF isNullish(v) THEN Return(<<>>)
    ELSE IF BasicWords(StringOf(v)) = <<>> THEN Return(<<>>)
    ELSE Return(CamelJoin(BasicWords(StringOf(v))))

---------------------------------------------------------------------------
\* The callers: a value is presented and each converter is called on it, in
\* any order; a caller may pass toKebabCase's result on as the next input.

VARIABLES input, prev, kebab, camel, dot, basic
vars == <<input, prev, kebab, camel, dot, basic>>

RECURSIVE StringsUpTo(_)
StringsUpTo(n) ==
    IF n = 0 THEN {<<>>}
    ELSE LET shorter == StringsUpTo(n - 1)
         IN  shorter \cup {Append(s, c) : s \in {t \in shorter : Len(t) = n - 1},
                                          c \in InputChars}

Inputs == {StrInput(s) : s \in StringsUpTo(MaxLen)}
              \cup {NonStrInput(t) : t \in NonStringTypes}
NoInput == [type |-> "none", chars |-> <<>>]

Init ==
    /\ input \in Inputs
    /\ prev = NoInput
    /\ kebab = Pending
    /\ camel = Pending
    /\ dot = Pending
    /\ basic = Pending

CallKebab ==
    /\ kebab = Pending
    /\ kebab' = toKebabCase(input)
    /\ UNCHANGED <<input, prev, camel, dot, basic>>

CallCamel ==
    /\ camel = Pending
    /\ camel' = toCamelCase(input)
    /\ UNCHANGED <<input, prev, kebab, dot, basic>>

CallDot ==
    /\ dot = Pending
    /\ dot' = toDotCase(input)
    /\ UNCHANGED <<input, prev, kebab, camel, basic>>

CallBasic ==
    /\ basic = Pending
    /\ basic' = toCamelCaseBasic(input)
    /\ UNCHANGED <<input, prev, kebab, camel, dot>>

\* toKebabCase(toKebabCase(x)): the result becomes the next call's input
Rekebab ==
    /\ prev = NoInput
    /\ kebab.kind = "return"
    /\ camel = Pending /\ dot = Pending /\ basic = Pending
    /\ input' = StrInput(kebab.value)
    /\ prev' = input
    /\ kebab' = Pending
    /\ UNCHANGED <<camel, dot, basic>>

Next == CallKebab \/ CallCamel \/ CallDot \/ CallBasic \/ Rekebab

Spec == Init /\ [][Next]_vars

---------------------------------------------------------------------------
\* Vocabulary of the properties

\* The letters and digits of s, in order
AlnumOf(s) == SelectSeq(s, LAMBDA c : c \in AlphaNum)
\* out without its separators
Unseparated(out, sep) == SelectSeq(out, LAMBDA c : c # sep)
\* How many letters and digits s holds up to and including position i
Rank(s, i) == Cardinality({j \in 1..i : s[j] \in AlphaNum})
\* The word of out (separated by sep) that holds its k-th non-separator
WordOf(out, sep, k) ==
    LET p == CHOOSE q \in 1..Len(out) :
                 /\ out[q] # sep
                 /\ Cardinality({r \in 1..q : out[r] # sep}) = k
    IN  1 + Cardinality({r \in 1..p : out[r] = sep})
\* Position i of s is a lowercase letter or digit followed by an uppercase letter
CamelBoundaryAt(s, i) ==
    /\ i \in 1..(Len(s) - 1)
    /\ s[i] \in Lower \cup Digit
    /\ s[i + 1] \in Upper
HasCamelBoundary(s) == \E i \in 1..Len(s) : CamelBoundaryAt(s, i)
\* Characters that delimit words for toKebabCase, and the other non-alphanumerics
KebabDelimiters == Whitespace \cup {"_", "-"}
Punctuation == Chars \ (AlphaNum \cup KebabDelimiters)
\* i < j hold letters or digits of s and nothing between them does
Gap(s, i, j) ==
    /\ i \in 1..Len(s) /\ j \in 1..Len(s) /\ i + 1 < j
    /\ s[i] \in AlphaNum /\ s[j] \in AlphaNum
    /\ \A k \in (i + 1)..(j - 1) : s[k] \notin AlphaNum
GapChars(s, i, j) == {s[k] : k \in (i + 1)..(j - 1)}

IsString == input.type = "string"
Trimmed == trim(input.chars)
Called == {r \in {kebab, camel, dot} : r # Pending}
IsNullError(r) ==
    /\ r.kind = "throw" /\ r.ctor = "TypeError"
    /\ r.msg \in {MsgRequired, MsgRequiredNonEmpty}
IsTypeMismatch(r) == r.kind = "throw" /\ r.ctor = "TypeError" /\ r.msg = MsgExpected
IsEmptyError(r) == r.kind = "throw" /\ r.ctor = "Error" /\ r.msg = MsgEmpty
IsNoAlnumError(r) == r.kind = "throw" /\ r.ctor = "Error" /\ r.msg = MsgNoAlnum

---------------------------------------------------------------------------
\* C1: toCamelCase keeps camelCase boundaries: whenever a lowercase letter or
\* digit of the input is immediately followed by an uppercase letter, that
\* uppercase letter starts a new word and so appears, still uppercase, at
\* the same place among the letters and digits of the result (both the
\* refined_prompt.js and the part_000 toCamelCase).
C1_CamelKeepsBoundaries ==
    IsString =>
        \A r \in {camel, basic} \ {Pending} :
            r.kind = "return" =>
                \A i \in 1..Len(input.chars) :
                    CamelBoundaryAt(input.chars, i) =>
                        /\ Rank(input.chars, i + 1) <= Len(r.value)
                        /\ r.value[Rank(input.chars, i + 1)] = input.chars[i + 1]

\* C2: for a valid string without a hyphen the three converters agree on
\* the words: toKebabCase's result split on '-' equals toDotCase's result
\* split on '.', and toCamelCase's result is those words camel-joined.
C2_StylesAgreeOnWords ==
    (/\ IsString
     /\ "-" \notin {input.chars[i] : i \in DOMAIN input.chars}
     /\ kebab.kind = "return" /\ camel.kind = "return" /\ dot.kind = "return")
    => /\ SplitChar(kebab.value, "-", <<>>) = SplitChar(dot.value, ".", <<>>)
       /\ camel.value = CamelJoin(SplitChar(kebab.value, "-", <<>>))

\* C3: an array or a plain object makes each of the three converters raise a
\* type-mismatch error whose category names the actual kind, an array being
\* reported as an array and not as an object.
C3_TypeMismatchNamesKind ==
    input.type \in {"array", "object"} =>
        \A r \in Called :
            /\ IsTypeMismatch(r)
            /\ input.type = "array" => r.received \in {"array", "an array"}
            /\ input.type = "object" => r.received \in {"object", "an object"}

\* C4: null or undefined makes every converter (the part_000 toCamelCase
\* included) raise the null-or-undefined error and return nothing.
C4_NullishRaises ==
    isNullish(input) =>
        \A r \in {kebab, camel, dot, basic} \ {Pending} : IsNullError(r)

\* C5: on a string the three converters classify alike: the empty-input
\* error exactly when the trimmed string is empty, the no-alphanumeric error
\* exactly when it is non-empty without a letter or digit, a result otherwise.
C5_StringClassification ==
    IsString =>
        \A r \in Called :
            /\ IsEmptyError(r) <=> Trimmed = <<>>
            /\ IsNoAlnumError(r) <=> (Trimmed # <<>> /\ AlnumOf(Trimmed) = <<>>)
            /\ r.kind = "return" <=> AlnumOf(Trimmed) # <<>>
C5_Witness ==
    /\ IsString
    /\ \E i \in DOMAIN input.chars : input.chars[i] = "-"
    /\ IsNoAlnumError(kebab) /\ IsNoAlnumError(camel) /\ IsNoAlnumError(dot)

\* C6: on a non-empty string holding a letter or digit each of the three
\* converters returns a non-empty string without any whitespace character.
C6_NonEmptyNoWhitespace ==
    (IsString /\ AlnumOf(input.chars) # <<>>) =>
        \A r \in Called :
            /\ r.kind = "return"
            /\ r.value # <<>>
            /\ \A i \in DOMAIN r.value : r.value[i] \notin Whitespace
C6_Witness ==
    /\ IsString
    /\ \E i \in 2..(Len(input.chars) - 1) :
           /\ input.chars[i] \in Whitespace
           /\ input.chars[i - 1] \in AlphaNum
           /\ input.chars[i + 1] \in AlphaNum
    /\ kebab.kind = "return" /\ camel.kind = "return" /\ dot.kind = "return"

\* C7: a string returned by toDotCase holds only lowercase letters, digits
\* and '.', neither starts nor ends with '.', and never holds "..".
C7_DotOutputShape ==
    dot.kind = "return" =>
        LET out == dot.value IN
        /\ \A i \in DOMAIN out : out[i] \in Lower \cup Digit \cup {"."}
        /\ out # <<>> => (out[1] # "." /\ out[Len(out)] # ".")
        /\ \A i \in 1..(Len(out) - 1) : ~(out[i] = "." /\ out[i + 1] = ".")
C7_Witness ==
    /\ dot.kind = "return"
    /\ IsString
    /\ Len(input.chars) >= 3
    /\ input.chars[1] \notin AlphaNum \cup Whitespace
    /\ \E i \in DOMAIN input.chars : input.chars[i] \in Upper
    /\ \E i \in 1..(Len(input.chars) - 1) :
           input.chars[i] = "." /\ input.chars[i + 1] = "."

\* C8: toKebabCase is idempotent on its own output: when x is valid and has
\* no camelCase boundary, toKebabCase(x) is a valid input and
\* toKebabCase(toKebabCase(x)) = toKebabCase(x).
C8_KebabIdempotent ==
    (prev # NoInput /\ ~HasCamelBoundary(prev.chars) /\ kebab # Pending)
        => kebab = Return(input.chars)
C8_Witness ==
    /\ prev # NoInput
    /\ ~HasCamelBoundary(prev.chars)
    /\ \E i \in DOMAIN prev.chars : prev.chars[i] \in Upper
    /\ \E i \in DOMAIN prev.chars : prev.chars[i] \in {"_", " "}
    /\ kebab.kind = "return"
    /\ \E i \in DOMAIN kebab.value : kebab.value[i] = "-"

\* C9: in toKebabCase two adjacent letters or digits of the input fall in
\* different words only when the first is a lowercase letter or digit and
\* the second an uppercase letter; the letters and digits of the result are
\* those of the input, lowercased, one for one, so a numeric run stays in
\* the word it is attached to.
C9_KebabSplitsOnlyAtCamelBoundary ==
    (IsString /\ kebab.kind = "return") =>
        LET t == Trimmed
            out == kebab.value
        IN  /\ Unseparated(out, "-") = toLowerCase(AlnumOf(t))
            /\ \A i \in 1..(Len(t) - 1) :
                   (/\ t[i] \in AlphaNum /\ t[i + 1] \in AlphaNum
                    /\ WordOf(out, "-", Rank(t, i)) # WordOf(out, "-", Rank(t, i + 1)))
                   => CamelBoundaryAt(t, i)
C9_Witness ==
    /\ IsString /\ prev = NoInput
    /\ kebab.kind = "return"
    /\ \E i \in 1..(Len(input.chars) - 2) :
           /\ input.chars[i] \in Lower
           /\ input.chars[i + 1] \in Digit
           /\ input.chars[i + 2] \in Lower
    /\ \A i \in DOMAIN kebab.value : kebab.value[i] # "-"

\* C10: in toKebabCase punctuation is deleted, after the camelCase
\* boundaries were inserted, without making a word boundary: two runs of
\* letters and digits separated by punctuation alone end in one word, two
\* runs separated by whitespace, an underscore or a hyphen in two.
C10_KebabPunctuationMerges ==
    (IsString /\ kebab.kind = "return") =>
        LET t == Trimmed
            out == kebab.value
        IN  \A i \in 1..Len(t), j \in 1..Len(t) :
                Gap(t, i, j) =>
                    /\ Len(Unseparated(out, "-")) = Len(AlnumOf(t))
                    /\ GapChars(t, i, j) \subseteq Punctuation
                         => WordOf(out, "-", Rank(t, i)) = WordOf(out, "-", Rank(t, j))
                    /\ GapChars(t, i, j) \cap KebabDelimiters # {}
                         => WordOf(out, "-", Rank(t, i)) # WordOf(out, "-", Rank(t, j))
C10_Witness ==
    /\ IsString /\ prev = NoInput
    /\ kebab.kind = "return"
    /\ \E i \in 1..(Len(input.chars) - 2) :
           /\ input.chars[i] \in Lower
           /\ input.chars[i + 1] = "."
           /\ input.chars[i + 2] \in Upper
    /\ \A i \in DOMAIN kebab.value : kebab.value[i] # "-"

====
